---- MODULE Spec2Model ----
(***************************************************************************)
(* Model of hmalib/common/messages/submit.py: the URL submission codec     *)
(* (URLSubmissionMessage) and the S3 batch notification parser             *)
(* (S3ImageSubmissionBatchMessage).                                        *)
(*                                                                         *)
(* Python values are modelled as records tagged with their Python type in  *)
(* the field ty.  A raised exception is modelled as the value the call     *)
(* yields: [ty |-> "KeyError", key |-> k], [ty |-> "TypeError"], ...       *)
(* A dict is [ty |-> "dict", m |-> f] where f is a function whose DOMAIN   *)
(* is the set of keys present.  Plain str fields are TLA+ strings.         *)
(***************************************************************************)
EXTENDS Integers, Sequences, FiniteSets, TLC

VARIABLES msg, d, image_prefix, on_mismatch, op, result

vars == <<msg, d, image_prefix, on_mismatch, op, result>>

\* Longest "Records" list enumerated.
MaxRecords == 2

----------------------------------------------------------------------------
\* Python values

None == [ty |-> "NoneType"]

PyBool(b) == [ty |-> "bool", b |-> b]

PyInt(i) == [ty |-> "int", i |-> i]

PyStr(s) == [ty |-> "str", s |-> s]

PyList(l) == [ty |-> "list", l |-> l]

PyDict(m) == [ty |-> "dict", m |-> m]

KeyError(k) == [ty |-> "KeyError", key |-> k]

TypeError == [ty |-> "TypeError"]

\* raised by the content-id helper when its policy is to reject a key that
\* lacks the prefix
NamingConventionViolation == [ty |-> "NamingConventionViolation"]

IsException(v) == v.ty \in {"KeyError", "TypeError", "NamingConventionViolation"}

\* k in m, for a dict m
Has(m, k) == k \in DOMAIN m

\* sub in s, for two str
Contains(s, sub) ==
    \E i \in 1..(Len(s) - Len(sub) + 1) : SubSeq(s, i, i + Len(sub) - 1) = sub

\* s.startswith(p)
StartsWith(s, p) == Len(p) <= Len(s) /\ SubSeq(s, 1, Len(p)) = p

----------------------------------------------------------------------------
\* URLSubmissionMessage

\* the reserved tag, default of the dataclass field event_type
DefaultEventType == "URLSubmission"

\* the content type classes of the registry, written as their repr: a class
\* object is never equal to a str
PhotoContent == "<class 'threatexchange.content_type.photo.PhotoContent'>"

VideoContent == "<class 'threatexchange.content_type.video.VideoContent'>"

ContentTypes == {PhotoContent, VideoContent}

\* ContentType.get_name()
get_name(content_type) ==
    IF content_type = PhotoContent THEN "photo" ELSE "video"

\* the dataclass constructor
URLSubmissionMessage(content_type, content_id, url, event_type) ==
    [ty |-> "URLSubmissionMessage",
     content_type |-> content_type,
     content_id |-> content_id,
     url |-> url,
     event_type |-> event_type]

to_sqs_message(self) ==
    PyDict([ContentType |-> get_name(self.content_type),
            ContentId |-> self.content_id,
            URL |-> self.url,
            EventType |-> self.event_type])

\* variant: the url is read with d.get("URL"), a missing key gives None
URLSubmissionMessage_from_sqs_message_Get(m) ==
    IF ~Has(m, "ContentType") THEN KeyError("ContentType")
    ELSE IF ~Has(m, "ContentId") THEN KeyError("ContentId")
    ELSE IF ~Has(m, "EventType") THEN KeyError("EventType")
    ELSE URLSubmissionMessage(m["ContentType"], m["ContentId"],
                              IF Has(m, "URL") THEN m["URL"] ELSE "None",
                              m["EventType"])

\* variant: event_type is left to its default instead of being read
URLSubmissionMessage_from_sqs_message_Default(m) ==
    IF ~Has(m, "ContentType") THEN KeyError("ContentType")
    ELSE IF ~Has(m, "ContentId") THEN KeyError("ContentId")
    ELSE IF ~Has(m, "URL") THEN KeyError("URL")
    ELSE IF ~Has(m, "EventType") THEN KeyError("EventType")
    ELSE URLSubmissionMessage(m["ContentType"], m["ContentId"], m["URL"],
                              DefaultEventType)

\* the subscripts are evaluated in the order of the keyword arguments; the
\* first missing key raises KeyError and no object is constructed
URLSubmissionMessage_from_sqs_message(m) ==
    IF ~Has(m, "ContentType") THEN KeyError("ContentType")
    ELSE IF ~Has(m, "ContentId") THEN KeyError("ContentId")
    ELSE IF ~Has(m, "URL") THEN KeyError("URL")
    ELSE IF ~Has(m, "EventType") THEN KeyError("EventType")
    ELSE URLSubmissionMessage(m["ContentType"], m["ContentId"], m["URL"],
                              m["EventType"])

\* variant: the value under "EventType" is compared with the reserved tag
URLSubmissionMessage_could_be_Tag(m) ==
    PyBool(Has(m, "EventType") /\ m["EventType"] = DefaultEventType)

URLSubmissionMessage_could_be(m) == PyBool(Has(m, "EventType"))

----------------------------------------------------------------------------
\* S3ImageSubmissionBatchMessage

\* the percent escapes that occur in the keys enumerated below
HexChar ==
    ("2F" :> "/") @@ ("2f" :> "/") @@ ("20" :> " ") @@ ("2B" :> "+")
    @@ ("2b" :> "+") @@ ("25" :> "%")

RECURSIVE ReplacePlus(_)
\* string.replace("+", " ")
ReplacePlus(s) ==
    IF s = "" THEN ""
    ELSE (IF Head(s) = "+" THEN " " ELSE Head(s)) \o ReplacePlus(Tail(s))

RECURSIVE unquote(_)
\* urllib.parse.unquote: %XX becomes the character, anything else is kept
unquote(s) ==
    IF s = "" THEN ""
    ELSE IF Head(s) = "%" /\ Len(s) >= 3 /\ SubSeq(s, 2, 3) \in DOMAIN HexChar
         THEN HexChar[SubSeq(s, 2, 3)] \o unquote(SubSeq(s, 4, Len(s)))
         ELSE Head(s) \o unquote(Tail(s))

\* variant: "+" is replaced but percent escapes are left encoded
unquote_plus_NoPercent(s) == ReplacePlus(s)

\* urllib.parse.unquote_plus
unquote_plus(s) == unquote(ReplacePlus(s))

\* S3BucketContentSource.get_content_id_from_s3_key: the key with the prefix
\* removed from its start.  What it does with a key that lacks the prefix is
\* left open: policy "raise" rejects it, policy "keep" returns the whole key.
get_content_id_from_s3_key(s3_key, prefix, policy) ==
    IF StartsWith(s3_key, prefix)
    THEN PyStr(SubSeq(s3_key, Len(prefix) + 1, Len(s3_key)))
    ELSE IF policy = "raise" THEN NamingConventionViolation
    ELSE PyStr(s3_key)

S3ImageSubmission(content_id, bucket, key) ==
    [content_id |-> content_id, bucket |-> bucket, key |-> key]

S3ImageSubmissionBatchMessage(image_submissions) ==
    [ty |-> "S3ImageSubmissionBatchMessage",
     image_submissions |-> image_submissions]

\* variant: the size test is missing, empty objects are submitted too
S3RecordStep_NoSkip(s3_record, prefix, policy) ==
    IF s3_record.ty # "dict" THEN TypeError
    ELSE LET r == s3_record.m IN
    IF ~Has(r, "s3") THEN KeyError("s3")
    ELSE IF ~Has(r["s3"], "bucket") THEN KeyError("bucket")
    ELSE IF ~Has(r["s3"]["bucket"], "name") THEN KeyError("name")
    ELSE IF ~Has(r["s3"], "object") THEN KeyError("object")
    ELSE IF ~Has(r["s3"]["object"], "key") THEN KeyError("key")
    ELSE IF ~Has(r["s3"]["object"], "size") THEN KeyError("size")
    ELSE LET bucket_name == r["s3"]["bucket"]["name"]
             key == unquote_plus(r["s3"]["object"]["key"])
             content_id == get_content_id_from_s3_key(key, prefix, policy)
         IN IF IsException(content_id) THEN content_id
            ELSE [ty |-> "append",
                  sub |-> S3ImageSubmission(content_id.s, bucket_name, key)]

\* the body of the for loop for one record: "skip" (continue), an exception,
\* or the submission to append
S3RecordStep(s3_record, prefix, policy) ==
    IF s3_record.ty # "dict" THEN TypeError
    ELSE LET r == s3_record.m IN
    IF ~Has(r, "s3") THEN KeyError("s3")
    ELSE IF ~Has(r["s3"], "bucket") THEN KeyError("bucket")
    ELSE IF ~Has(r["s3"]["bucket"], "name") THEN KeyError("name")
    ELSE IF ~Has(r["s3"], "object") THEN KeyError("object")
    ELSE IF ~Has(r["s3"]["object"], "key") THEN KeyError("key")
    ELSE IF ~Has(r["s3"]["object"], "size") THEN KeyError("size")
    ELSE LET bucket_name == r["s3"]["bucket"]["name"]
             key == unquote_plus(r["s3"]["object"]["key"])
             content_id == get_content_id_from_s3_key(key, prefix, policy)
         IN IF r["s3"]["object"]["size"] = 0 THEN [ty |-> "skip"]
            ELSE IF IsException(content_id) THEN content_id
            ELSE [ty |-> "append",
                  sub |-> S3ImageSubmission(content_id.s, bucket_name, key)]

RECURSIVE S3Loop(_, _, _, _, _)
\* the for loop over d["Records"], from record i on, with the list built so far
S3Loop(records, i, acc, prefix, policy) ==
    IF i > Len(records) THEN S3ImageSubmissionBatchMessage(acc)
    ELSE LET step == S3RecordStep(records[i], prefix, policy) IN
         IF IsException(step) THEN step
         ELSE IF step.ty = "skip" THEN S3Loop(records, i + 1, acc, prefix, policy)
         ELSE S3Loop(records, i + 1, Append(acc, step.sub), prefix, policy)

\* variant: the records are read with d.get("Records", [])
S3ImageSubmissionBatchMessage_from_sqs_message_Get(m, prefix, policy) ==
    IF ~Has(m, "Records") THEN S3ImageSubmissionBatchMessage(<<>>)
    ELSE LET v == m["Records"] IN
         IF v.ty = "list" THEN S3Loop(v.l, 1, <<>>, prefix, policy)
         ELSE IF v.ty = "str"
              THEN (IF v.s = "" THEN S3ImageSubmissionBatchMessage(<<>>)
                    ELSE TypeError)
         ELSE TypeError

S3ImageSubmissionBatchMessage_from_sqs_message(m, prefix, policy) ==
    IF ~Has(m, "Records") THEN KeyError("Records")
    ELSE LET v == m["Records"] IN
         IF v.ty = "list" THEN S3Loop(v.l, 1, <<>>, prefix, policy)
         \* iterating a str yields its characters; subscripting one with "s3"
         \* is a TypeError
         ELSE IF v.ty = "str"
              THEN (IF v.s = "" THEN S3ImageSubmissionBatchMessage(<<>>)
                    ELSE TypeError)
         \* None and int are not iterable
         ELSE TypeError

\* "s3" in e, by the type of e
InValue(k, e) ==
    IF e.ty = "dict" THEN PyBool(Has(e.m, k))
    ELSE IF e.ty = "str" THEN PyBool(Contains(e.s, k))
    ELSE TypeError

S3ImageSubmissionBatchMessage_could_be(m) ==
    IF ~Has(m, "Records") THEN PyBool(FALSE)
    ELSE LET v == m["Records"] IN
         IF v.ty \notin {"list", "str"} THEN TypeError  \* len() of None or int
         ELSE IF v.ty = "list"
              THEN (IF Len(v.l) = 0 THEN PyBool(FALSE) ELSE InValue("s3", v.l[1]))
              ELSE (IF Len(v.s) = 0 THEN PyBool(FALSE)
                    ELSE InValue("s3", PyStr(SubSeq(v.s, 1, 1))))

----------------------------------------------------------------------------
\* Inputs

ContentIds == {"id1", "id2"}

URLs == {"https://example.com/a.jpg", "https://example.com/b.mp4"}

\* well-formed messages: built by the constructor with event_type defaulted
Messages ==
    {URLSubmissionMessage(ct, id, u, DefaultEventType) :
        ct \in ContentTypes, id \in ContentIds, u \in URLs}

URLKeys == {"ContentType", "ContentId", "URL", "EventType"}

\* the values a raw URL payload may carry under each key
URLValues(k) ==
    CASE k = "ContentType" -> {"photo", "video"}
      [] k = "ContentId" -> {"id1"}
      [] k = "URL" -> {"https://example.com/a.jpg"}
      [] k = "EventType" -> {DefaultEventType, "ObjectCreated"}
      [] k = "Type" -> {"Notification"}

\* raw URL payloads: the key "Type" always present, any subset of the four
\* keys of the wire shape
RawURL ==
    {PyDict(f) : f \in UNION {
        {g \in [ks \cup {"Type"} -> UNION {URLValues(k) : k \in URLKeys \cup {"Type"}}] :
            \A k \in DOMAIN g : g[k] \in URLValues(k)} :
                ks \in SUBSET URLKeys}}

Buckets == {"b", "media"}

\* object keys as S3 writes them in a notification (percent encoded)
EncodedKeys ==
    {"img%2Fsubmissions/a.jpg", "img/submissions/b.jpg",
     "submissions/abc123.jpg", "folder+name/file%20one.jpg"}

Sizes == {0, 1024}

Prefixes == {"img/submissions/", "submissions/"}

\* one record of an S3 event notification, relevant fields and a sibling of
\* each
S3Record(bucket, key, size) ==
    PyDict([eventName |-> "ObjectCreated:Put",
            s3 |-> [s3SchemaVersion |-> "1.0",
                    bucket |-> [arn |-> "arn:aws:s3:::" \o bucket, name |-> bucket],
                    object |-> [eTag |-> "e", key |-> key, size |-> size]]])

CompleteRecords ==
    {S3Record(b, k, s) : b \in Buckets, k \in EncodedKeys, s \in Sizes}

\* records with one required field, or one of the mappings leading to it,
\* absent
DefectiveRecords ==
    {PyDict([eventName |-> "ObjectCreated:Put"]),
     PyDict([eventName |-> "ObjectCreated:Put",
             s3 |-> [s3SchemaVersion |-> "1.0",
                     object |-> [eTag |-> "e", key |-> "img/submissions/b.jpg", size |-> 0]]]),
     PyDict([eventName |-> "ObjectCreated:Put",
             s3 |-> [s3SchemaVersion |-> "1.0",
                     bucket |-> [arn |-> "arn:aws:s3:::b"],
                     object |-> [eTag |-> "e", key |-> "img/submissions/b.jpg", size |-> 0]]]),
     PyDict([eventName |-> "ObjectCreated:Put",
             s3 |-> [s3SchemaVersion |-> "1.0",
                     bucket |-> [arn |-> "arn:aws:s3:::b", name |-> "b"]]]),
     PyDict([eventName |-> "ObjectCreated:Put",
             s3 |-> [s3SchemaVersion |-> "1.0",
                     bucket |-> [arn |-> "arn:aws:s3:::b", name |-> "b"],
                     object |-> [eTag |-> "e", size |-> 0]]]),
     PyDict([eventName |-> "ObjectCreated:Put",
             s3 |-> [s3SchemaVersion |-> "1.0",
                     bucket |-> [arn |-> "arn:aws:s3:::b", name |-> "b"],
                     object |-> [eTag |-> "e", key |-> "img/submissions/b.jpg"]]])}

\* elements of a "Records" list that are not mappings
NonMappings == {PyInt(7), PyStr("s3"), PyStr("sns")}

Elements == CompleteRecords \cup DefectiveRecords \cup NonMappings

Lists == UNION {[1..n -> Elements] : n \in 0..MaxRecords}

\* the values found under "Records"
RecordsValues ==
    {PyList(l) : l \in Lists} \cup {None, PyInt(7), PyStr(""), PyStr("s3")}

\* raw payloads of the S3 family, and payloads with no "Records" at all
RawS3 ==
    {PyDict([Type |-> "Notification", Records |-> v]) : v \in RecordsValues}
    \cup {PyDict([Records |-> v]) : v \in RecordsValues}
    \cup {PyDict([Type |-> "Notification"])}

----------------------------------------------------------------------------
\* State machine: one payload or one message is drawn, then one operation of
\* the module is applied to it.

Init ==
    /\ \/ msg \in Messages /\ d = None
       \/ msg = None /\ d \in RawURL
       \/ msg = None /\ d \in RawS3
    /\ image_prefix \in Prefixes
    /\ on_mismatch \in {"raise", "keep"}
    /\ op = "start"
    /\ result = None

\* msg.to_sqs_message(): the payload that goes on the queue
ToSqsMessage ==
    /\ op = "start"
    /\ msg.ty = "URLSubmissionMessage"
    /\ d' = to_sqs_message(msg)
    /\ result' = d'
    /\ op' = "to_sqs_message"
    /\ UNCHANGED <<msg, image_prefix, on_mismatch>>

\* URLSubmissionMessage.from_sqs_message(d), on a received payload or on the
\* payload just serialized
URLFromSqsMessage ==
    /\ op \in {"start", "to_sqs_message"}
    /\ d.ty = "dict"
    /\ result' = URLSubmissionMessage_from_sqs_message(d.m)
    /\ op' = "URLSubmissionMessage.from_sqs_message"
    /\ UNCHANGED <<msg, d, image_prefix, on_mismatch>>

URLCouldBe ==
    /\ op \in {"start", "to_sqs_message"}
    /\ d.ty = "dict"
    /\ result' = URLSubmissionMessage_could_be(d.m)
    /\ op' = "URLSubmissionMessage.could_be"
    /\ UNCHANGED <<msg, d, image_prefix, on_mismatch>>

S3FromSqsMessage ==
    /\ op \in {"start", "to_sqs_message"}
    /\ d.ty = "dict"
    /\ result' = S3ImageSubmissionBatchMessage_from_sqs_message(
                     d.m, image_prefix, on_mismatch)
    /\ op' = "S3ImageSubmissionBatchMessage.from_sqs_message"
    /\ UNCHANGED <<msg, d, image_prefix, on_mismatch>>

S3CouldBe ==
    /\ op \in {"start", "to_sqs_message"}
    /\ d.ty = "dict"
    /\ result' = S3ImageSubmissionBatchMessage_could_be(d.m)
    /\ op' = "S3ImageSubmissionBatchMessage.could_be"
    /\ UNCHANGED <<msg, d, image_prefix, on_mismatch>>

Next ==
    \/ ToSqsMessage
    \/ URLFromSqsMessage
    \/ URLCouldBe
    \/ S3FromSqsMessage
    \/ S3CouldBe

Spec == Init /\ [][Next]_vars

----------------------------------------------------------------------------
\* Vocabulary of the properties

URLFrom == "URLSubmissionMessage.from_sqs_message"

S3From == "S3ImageSubmissionBatchMessage.from_sqs_message"

\* the payload is a notification: "Records" is a list of mappings
IsNotification(m) ==
    /\ Has(m, "Records")
    /\ m["Records"].ty = "list"
    /\ \A i \in 1..Len(m["Records"].l) : m["Records"].l[i].ty = "dict"

HasBucketName(r) ==
    Has(r, "s3") /\ Has(r["s3"], "bucket") /\ Has(r["s3"]["bucket"], "name")

HasObjectKey(r) ==
    Has(r, "s3") /\ Has(r["s3"], "object") /\ Has(r["s3"]["object"], "key")

HasObjectSize(r) ==
    Has(r, "s3") /\ Has(r["s3"], "object") /\ Has(r["s3"]["object"], "size")

IsComplete(r) == HasBucketName(r) /\ HasObjectKey(r) /\ HasObjectSize(r)

\* the records of a notification, as mappings
Recs(m) == [i \in 1..Len(m["Records"].l) |-> m["Records"].l[i].m]

BucketOf(r) == r["s3"]["bucket"]["name"]

KeyOf(r) == r["s3"]["object"]["key"]

SizeOf(r) == r["s3"]["object"]["size"]

\* the literal form of each enumerated key: what percent/plus decoding is
\* to produce
Decoded ==
    ("img%2Fsubmissions/a.jpg" :> "img/submissions/a.jpg")
    @@ ("img/submissions/b.jpg" :> "img/submissions/b.jpg")
    @@ ("submissions/abc123.jpg" :> "submissions/abc123.jpg")
    @@ ("folder+name/file%20one.jpg" :> "folder name/file one.jpg")

\* every record that has an object key has one that, decoded, starts with
\* the prefix
KeysPrefixed(m, prefix) ==
    \A i \in DOMAIN Recs(m) :
        HasObjectKey(Recs(m)[i]) => StartsWith(Decoded[KeyOf(Recs(m)[i])], prefix)

\* a well-formed notification: every record has the three fields
WellFormed(m) ==
    IsNotification(m) /\ \A i \in DOMAIN Recs(m) : IsComplete(Recs(m)[i])

\* the positions of the records of non-zero size
NonZero(m) == {i \in DOMAIN Recs(m) : SizeOf(Recs(m)[i]) # 0}

\* the position in the result of the record at position i
Rank(m, i) == Cardinality({k \in NonZero(m) : k <= i})

----------------------------------------------------------------------------
\* Properties

\* C1: deserializing the serialization of a well-formed message gives back
\* the message, field by field, content_type included.
C1_RoundTrip ==
    (op = URLFrom /\ msg.ty = "URLSubmissionMessage") => result = msg

\* C2: for a well-formed notification of N records, M of size 0, whose keys
\* all start with the prefix, the batch has exactly N - M submissions, the
\* k-th of them coming from the k-th record of non-zero size.
C2_Filtering ==
    (op = S3From /\ WellFormed(d.m) /\ KeysPrefixed(d.m, image_prefix)) =>
        /\ result.ty = "S3ImageSubmissionBatchMessage"
        /\ Len(result.image_submissions) =
               Len(Recs(d.m)) - Cardinality(DOMAIN Recs(d.m) \ NonZero(d.m))
        /\ \A i \in NonZero(d.m) :
               /\ Rank(d.m, i) \in DOMAIN result.image_submissions
               /\ result.image_submissions[Rank(d.m, i)].key =
                      Decoded[KeyOf(Recs(d.m)[i])]
               /\ result.image_submissions[Rank(d.m, i)].bucket =
                      BucketOf(Recs(d.m)[i])

\* a notification of two records, the first of size 0, was filtered to one
C2_Witness ==
    /\ op = S3From /\ WellFormed(d.m) /\ KeysPrefixed(d.m, image_prefix)
    /\ Len(Recs(d.m)) = 2
    /\ NonZero(d.m) = {2}
    /\ KeyOf(Recs(d.m)[1]) # KeyOf(Recs(d.m)[2])
    /\ result.ty = "S3ImageSubmissionBatchMessage"
    /\ Len(result.image_submissions) = 1

\* the payloads C3 calls structurally unexpected
Unexpected(m) ==
    \/ ~Has(m, "Records")
    \/ m["Records"].ty # "list"
    \/ Len(m["Records"].l) = 0
    \/ m["Records"].l[1].ty # "dict"

\* C3: S3ImageSubmissionBatchMessage.could_be never raises, and answers
\* false when "Records" is absent, empty, not a sequence, or its first
\* element is not a mapping.
C3_CouldBeNeverRaises ==
    op = "S3ImageSubmissionBatchMessage.could_be" =>
        /\ result.ty = "bool"
        /\ Unexpected(d.m) => result.b = FALSE

\* C4: S3ImageSubmissionBatchMessage.could_be answers true exactly when
\* "Records" is present, is a non-empty sequence, and its first element has
\* the key "s3".
C4_CouldBeIff ==
    op = "S3ImageSubmissionBatchMessage.could_be" =>
        (result = PyBool(TRUE) <=>
            /\ Has(d.m, "Records")
            /\ d.m["Records"].ty = "list"
            /\ Len(d.m["Records"].l) > 0
            /\ d.m["Records"].l[1].ty = "dict"
            /\ Has(d.m["Records"].l[1].m, "s3"))

\* C5: URLSubmissionMessage.could_be always answers, and answers true
\* exactly when the key "EventType" is present.
C5_URLCouldBe ==
    op = "URLSubmissionMessage.could_be" =>
        /\ result.ty = "bool"
        /\ result.b <=> "EventType" \in DOMAIN d.m

\* could_be answered true on a payload that lacks other keys of the wire
\* shape and whose event type is not the reserved tag
C5_Witness ==
    /\ op = "URLSubmissionMessage.could_be"
    /\ result = PyBool(TRUE)
    /\ "URL" \notin DOMAIN d.m
    /\ d.m["EventType"] # DefaultEventType

\* C6: URLSubmissionMessage.from_sqs_message fails (the KeyError of the
\* subscript is the malformed-message error) when one of the four keys is
\* absent, and then yields no message; with the four keys it yields one.
C6_MissingKeyFails ==
    op = URLFrom =>
        /\ ~(URLKeys \subseteq DOMAIN d.m) =>
               /\ result.ty = "KeyError"
               /\ result.key \in URLKeys \ DOMAIN d.m
        /\ URLKeys \subseteq DOMAIN d.m => result.ty = "URLSubmissionMessage"

\* the payload lacked only "URL" and the call failed on it
C6_Witness ==
    /\ op = URLFrom
    /\ URLKeys \ DOMAIN d.m = {"URL"}
    /\ result = KeyError("URL")

\* C7: S3ImageSubmissionBatchMessage.from_sqs_message fails (KeyError), with
\* no batch, when "Records" is absent or a record of the notification lacks
\* the bucket name, the object key or the object size; it yields a batch for
\* every well-formed notification, whatever the sizes.  Keys that lack the
\* prefix are outside the claim.
C7_S3MalformedFails ==
    op = S3From =>
        /\ ~Has(d.m, "Records") => result = KeyError("Records")
        /\ (IsNotification(d.m) /\ ~WellFormed(d.m)) => IsException(result)
        /\ (IsNotification(d.m) /\ ~WellFormed(d.m)
                /\ KeysPrefixed(d.m, image_prefix)) => result.ty = "KeyError"
        /\ (WellFormed(d.m) /\ KeysPrefixed(d.m, image_prefix)) =>
               result.ty = "S3ImageSubmissionBatchMessage"

\* a complete record of non-zero size followed by a record of size 0 that
\* lacks the bucket name: the whole batch failed
C7_Witness ==
    /\ op = S3From
    /\ IsNotification(d.m)
    /\ Len(Recs(d.m)) = 2
    /\ IsComplete(Recs(d.m)[1]) /\ SizeOf(Recs(d.m)[1]) # 0
    /\ HasObjectSize(Recs(d.m)[2]) /\ SizeOf(Recs(d.m)[2]) = 0
    /\ ~HasBucketName(Recs(d.m)[2])
    /\ KeysPrefixed(d.m, image_prefix)
    /\ result.ty = "KeyError"

\* C8: every URLSubmissionMessage, built with the default or returned by
\* from_sqs_message, has event_type equal to the reserved tag.
C8_EventTypeReserved ==
    /\ msg.ty = "URLSubmissionMessage" => msg.event_type = DefaultEventType
    /\ (op = URLFrom /\ result.ty = "URLSubmissionMessage") =>
           result.event_type = DefaultEventType

\* C8 as amended: a message built with the default argument has the reserved
\* tag; a message returned by from_sqs_message has the value found under
\* "EventType", so the reserved tag exactly when the payload carries it.
C8_EventTypeCarried ==
    /\ msg.ty = "URLSubmissionMessage" => msg.event_type = DefaultEventType
    /\ (op = URLFrom /\ result.ty = "URLSubmissionMessage") =>
           /\ result.event_type = d.m["EventType"]
           /\ result.event_type = DefaultEventType <=>
                  d.m["EventType"] = DefaultEventType

\* a payload with the four keys and another event type was deserialized
C8_Witness ==
    /\ op = URLFrom
    /\ URLKeys \subseteq DOMAIN d.m
    /\ d.m["EventType"] # DefaultEventType
    /\ result.ty = "URLSubmissionMessage"
    /\ result.event_type = d.m["EventType"]

\* the notification of the end-to-end scenario
Scenario ==
    PyDict([Records |-> PyList(<<S3Record("b", "img%2Fsubmissions/a.jpg", 0),
                                 S3Record("b", "img/submissions/b.jpg", 1024)>>)])

\* C9: the submission emitted for a record of non-zero size whose decoded key
\* starts with the prefix has the record's bucket, the decoded key, and as
\* content_id the decoded key without the prefix; the end-to-end scenario
\* yields exactly {content_id "b.jpg", bucket "b", key "img/submissions/b.jpg"}.
C9_SubmissionFields ==
    /\ (op = S3From /\ WellFormed(d.m)
            /\ result.ty = "S3ImageSubmissionBatchMessage") =>
           \A i \in NonZero(d.m) :
               LET key == Decoded[KeyOf(Recs(d.m)[i])]
                   sub == result.image_submissions[Rank(d.m, i)]
               IN StartsWith(key, image_prefix) =>
                      /\ sub.bucket = BucketOf(Recs(d.m)[i])
                      /\ sub.key = key
                      /\ image_prefix \o sub.content_id = key
    /\ (op = S3From /\ d = Scenario /\ image_prefix = "img/submissions/") =>
           result = S3ImageSubmissionBatchMessage(
                        <<[content_id |-> "b.jpg", bucket |-> "b",
                           key |-> "img/submissions/b.jpg"]>>)

\* the end-to-end scenario was parsed
C9_Witness ==
    /\ op = S3From /\ d = Scenario /\ image_prefix = "img/submissions/"
    /\ result.ty = "S3ImageSubmissionBatchMessage"
    /\ Len(result.image_submissions) = 1
    /\ result.image_submissions[1].content_id = "b.jpg"

\* C10: a payload on which could_be answers true is converted by
\* from_sqs_message of the same class.
C10_CouldBeSufficient ==
    /\ (op = URLFrom /\ URLSubmissionMessage_could_be(d.m) = PyBool(TRUE)) =>
           result.ty = "URLSubmissionMessage"
    /\ (op = S3From /\ S3ImageSubmissionBatchMessage_could_be(d.m) = PyBool(TRUE)) =>
           result.ty = "S3ImageSubmissionBatchMessage"

====
